---- MODULE Spec2Model ----
(***************************************************************************)
(* The Semaphore class of src/src/index.ts as a state machine.             *)
(*                                                                         *)
(* The class runs on a single-threaded event loop.  A synchronous stretch  *)
(* of code (a call of acquire up to its await, a call of release, the      *)
(* body of run between two awaits) is one atomic step.  Promise            *)
(* continuations are jobs of the microtask queue, which is FIFO: `jobs`    *)
(* holds, in order, the logical tasks that have a continuation pending.    *)
(* Calls made by the callers (AcquireCall, RunCall, ReleaseCall,           *)
(* LockedCall) and the settling of a task's promise (TaskSettle) may       *)
(* happen between any two jobs.                                            *)
(***************************************************************************)
EXTENDS Integers, Sequences, FiniteSets

\* ---------------------------------------------------------------- bounds
NumProcs == 3          \* logical tasks calling the semaphore
MaxInit == 2           \* largest constructor argument tried
MaxNeg == 1            \* constructor arguments go down to -MaxNeg
MaxAcquires == 3       \* acquire() calls issued in one behaviour (raw or by run)
MaxRawReleases == 2    \* release() calls issued by callers (not by run)

Procs == 1..NumProcs
InitArgs == (0 - MaxNeg)..MaxInit

VARIABLES
  constructed,   \* "none" before `new Semaphore(n)`, then "ok" or "threw"
  initArg,       \* the argument the constructor was called with
  _value,        \* Semaphore._value
  _waiters,      \* Semaphore._waiters: the resolve callbacks, named by their task
  pc,            \* where each logical task stands
  mode,          \* "raw": the task called acquire(); "run": it called run(task)
  jobs,          \* the microtask queue (tasks with a pending continuation)
  taskOutcome,   \* how the task given to run ended: "none", "ok", "fail", "throw"
  result,        \* how run's promise settled: "none", "ok", "fail"
  relCount,      \* release() calls made by the task's current run() call
  ticket,        \* issue number of the task's current acquire() call
  nAcquire,      \* acquire() calls issued so far
  nRelease,      \* release() calls so far (by callers and by run)
  nRawRelease,   \* release() calls so far by callers
  nGrant,        \* permits granted so far (fast path, or resolve invoked)
  relDue,        \* for a suspended task: the number its (i+1)th release after
                 \* enqueuing will have, i the waiters then ahead of it
  lockedResult   \* what locked() returned, when the last step was a locked() call

vars == <<constructed, initArg, _value, _waiters, pc, mode, jobs, taskOutcome,
          result, relCount, ticket, nAcquire, nRelease, nRawRelease, nGrant,
          relDue, lockedResult>>

sem == <<_value, _waiters>>
runVars == <<taskOutcome, result, relCount>>
acqHist == <<ticket, nAcquire, nGrant, relDue>>

\* --------------------------------------------------------- the semaphore

\* locked(): index.ts 37-39
lockedNoValueTest(v, ws) == Len(ws) > 0
locked(v, ws) == v = 0 \/ Len(ws) > 0

\* _wakeUpNext(): index.ts 85-92.  The result is the new counter, the new
\* queue and the waiters whose resolve callback was invoked (none or one).
_wakeUpNextNoDecrement(v, ws) ==
  IF Len(ws) = 0
    THEN [value |-> v, waiters |-> ws, woke |-> <<>>]
    ELSE [value |-> v, waiters |-> Tail(ws), woke |-> <<Head(ws)>>]
_wakeUpNextAll(v, ws) ==
  IF Len(ws) = 0
    THEN [value |-> v, waiters |-> ws, woke |-> <<>>]
    ELSE [value |-> v - 1, waiters |-> <<>>, woke |-> ws]
_wakeUpNextLast(v, ws) ==
  IF Len(ws) = 0
    THEN [value |-> v, waiters |-> ws, woke |-> <<>>]
    ELSE [value |-> v - 1, waiters |-> SubSeq(ws, 1, Len(ws) - 1),
          woke |-> <<ws[Len(ws)]>>]
_wakeUpNextNoShift(v, ws) ==
  IF Len(ws) = 0
    THEN [value |-> v, waiters |-> ws, woke |-> <<>>]
    ELSE [value |-> v - 1, waiters |-> ws, woke |-> <<Head(ws)>>]
_wakeUpNextNoResolve(v, ws) ==
  IF Len(ws) = 0
    THEN [value |-> v, waiters |-> ws, woke |-> <<>>]
    ELSE [value |-> v - 1, waiters |-> Tail(ws), woke |-> <<>>]
_wakeUpNext(v, ws) ==
  IF Len(ws) = 0
    THEN [value |-> v, waiters |-> ws, woke |-> <<>>]
    ELSE [value |-> v - 1, waiters |-> Tail(ws), woke |-> <<Head(ws)>>]

\* release(): index.ts 65-68
releaseCapped(v, ws) == _wakeUpNext((IF v < initArg THEN v + 1 ELSE v), ws)
release(v, ws) == _wakeUpNext(v + 1, ws)

\* The tasks of a sequence, as a set.
Range(s) == {s[i] : i \in 1..Len(s)}

\* The logical tasks are interchangeable: the next call is made by the idle
\* task of least index.
NextCaller(p) == pc[p] = "idle" /\ \A q \in Procs : q < p => pc[q] # "idle"

\* ----------------------------------------------------------------- Init
Init ==
  /\ constructed = "none"
  /\ initArg = 0
  /\ _value = 0
  /\ _waiters = <<>>
  /\ pc = [p \in Procs |-> "idle"]
  /\ mode = [p \in Procs |-> "none"]
  /\ jobs = <<>>
  /\ taskOutcome = [p \in Procs |-> "none"]
  /\ result = [p \in Procs |-> "none"]
  /\ relCount = [p \in Procs |-> 0]
  /\ ticket = [p \in Procs |-> 0]
  /\ nAcquire = 0
  /\ nRelease = 0
  /\ nRawRelease = 0
  /\ nGrant = 0
  /\ relDue = [p \in Procs |-> 0]
  /\ lockedResult = "none"

\* ------------------------------------------------------------- actions

\* constructor: index.ts 26-32
ConstructNoCheck(n) ==
  /\ constructed = "none"
  /\ constructed' = "ok"
  /\ initArg' = n
  /\ _value' = n
  /\ _waiters' = <<>>
  /\ lockedResult' = "none"
  /\ UNCHANGED <<pc, mode, jobs, runVars, acqHist, nRelease, nRawRelease>>
Construct(n) ==
  /\ constructed = "none"
  /\ initArg' = n
  /\ IF n < 0
       THEN /\ constructed' = "threw"
            /\ UNCHANGED sem
       ELSE /\ constructed' = "ok"
            /\ _value' = n
            /\ _waiters' = <<>>
  /\ lockedResult' = "none"
  /\ UNCHANGED <<pc, mode, jobs, runVars, acqHist, nRelease, nRawRelease>>

\* locked() called by some caller: index.ts 37-39
LockedCall ==
  /\ constructed = "ok"
  /\ lockedResult' = IF locked(_value, _waiters) THEN "true" ELSE "false"
  /\ UNCHANGED <<constructed, initArg, sem, pc, mode, jobs, runVars, acqHist,
                 nRelease, nRawRelease>>

\* The synchronous part of acquire() called by task p in mode m: index.ts
\* 49-56.  On the fast path the promise of acquire() is resolved when the
\* call returns, and the caller's await queues its continuation; otherwise
\* the resolve callback is pushed and the task stays suspended.
acquireNoLockedTest(p, m) ==
  /\ _value' = _value - 1
  /\ _waiters' = _waiters
  /\ pc' = [pc EXCEPT ![p] = "acquired"]
  /\ jobs' = Append(jobs, p)
  /\ nGrant' = nGrant + 1
  /\ relDue' = relDue
  /\ mode' = [mode EXCEPT ![p] = m]
  /\ ticket' = [ticket EXCEPT ![p] = nAcquire + 1]
  /\ nAcquire' = nAcquire + 1
acquire(p, m) ==
  /\ IF ~locked(_value, _waiters)
       THEN /\ _value' = _value - 1
            /\ _waiters' = _waiters
            /\ pc' = [pc EXCEPT ![p] = "acquired"]
            /\ jobs' = Append(jobs, p)
            /\ nGrant' = nGrant + 1
            /\ relDue' = relDue
       ELSE /\ _value' = _value
            /\ _waiters' = Append(_waiters, p)
            /\ pc' = [pc EXCEPT ![p] = "waiting"]
            /\ jobs' = jobs
            /\ nGrant' = nGrant
            /\ relDue' = [relDue EXCEPT ![p] = nRelease + Len(_waiters) + 1]
  /\ mode' = [mode EXCEPT ![p] = m]
  /\ ticket' = [ticket EXCEPT ![p] = nAcquire + 1]
  /\ nAcquire' = nAcquire + 1

\* acquire() called directly by task p, which awaits it
AcquireCall(p) ==
  /\ constructed = "ok"
  /\ NextCaller(p)
  /\ nAcquire < MaxAcquires
  /\ acquire(p, "raw")
  /\ lockedResult' = "none"
  /\ UNCHANGED <<constructed, initArg, runVars, nRelease, nRawRelease>>

\* run(task) called by task p, up to `await this.acquire()`: index.ts 73-74
RunCall(p) ==
  /\ constructed = "ok"
  /\ NextCaller(p)
  /\ nAcquire < MaxAcquires
  /\ acquire(p, "run")
  /\ taskOutcome' = [taskOutcome EXCEPT ![p] = "none"]
  /\ result' = [result EXCEPT ![p] = "none"]
  /\ relCount' = [relCount EXCEPT ![p] = 0]
  /\ lockedResult' = "none"
  /\ UNCHANGED <<constructed, initArg, nRelease, nRawRelease>>

\* The effect of one release() on the semaphore, the woken waiters and the
\* histories; `after` are the jobs the calling code queues after the call.
DoRelease(caller, after) ==
  LET r == release(_value, _waiters) IN
    /\ _value' = r.value
    /\ _waiters' = r.waiters
    /\ pc' = [q \in Procs |->
                IF q \in Range(r.woke) THEN "woken"
                ELSE IF q = caller THEN "returned"
                ELSE pc[q]]
    /\ jobs' = (IF caller = 0 THEN jobs ELSE Tail(jobs)) \o r.woke \o after
    /\ nGrant' = nGrant + Len(r.woke)
    /\ relDue' = [q \in Procs |-> IF q \in Range(r.woke) THEN 0 ELSE relDue[q]]
    /\ nRelease' = nRelease + 1

\* release() called by some caller: index.ts 65-68
ReleaseCall ==
  /\ constructed = "ok"
  /\ nRawRelease < MaxRawReleases
  /\ DoRelease(0, <<>>)
  /\ nRawRelease' = nRawRelease + 1
  /\ lockedResult' = "none"
  /\ UNCHANGED <<constructed, initArg, mode, runVars, ticket, nAcquire>>

\* The continuation of `await new Promise(...)` in acquire(): index.ts 54-57.
\* acquire() returns, its promise resolves and the caller's continuation is
\* queued.
AcquireResumeDecrements(p) ==
  /\ jobs # <<>> /\ Head(jobs) = p
  /\ pc[p] = "woken"
  /\ pc' = [pc EXCEPT ![p] = "acquired"]
  /\ jobs' = Append(Tail(jobs), p)
  /\ _value' = _value - 1
  /\ _waiters' = _waiters
  /\ lockedResult' = "none"
  /\ UNCHANGED <<constructed, initArg, mode, runVars, ticket, nAcquire,
                 nGrant, relDue, nRelease, nRawRelease>>
AcquireResume(p) ==
  /\ jobs # <<>> /\ Head(jobs) = p
  /\ pc[p] = "woken"
  /\ pc' = [pc EXCEPT ![p] = "acquired"]
  /\ jobs' = Append(Tail(jobs), p)
  /\ lockedResult' = "none"
  /\ UNCHANGED <<constructed, initArg, sem, mode, runVars, ticket, nAcquire,
                 nGrant, relDue, nRelease, nRawRelease>>

\* The continuation of the caller's `await sem.acquire()`: the caller goes on,
\* holding its permit.
AcquireReturn(p) ==
  /\ jobs # <<>> /\ Head(jobs) = p
  /\ pc[p] = "acquired" /\ mode[p] = "raw"
  /\ pc' = [pc EXCEPT ![p] = "idle"]
  /\ mode' = [mode EXCEPT ![p] = "none"]
  /\ ticket' = [ticket EXCEPT ![p] = 0]
  /\ jobs' = Tail(jobs)
  /\ lockedResult' = "none"
  /\ UNCHANGED <<constructed, initArg, sem, runVars, nAcquire, nGrant, relDue,
                 nRelease, nRawRelease>>

\* run after `await this.acquire()`: task() is called and returns a pending
\* promise: index.ts 75-76
RunStartTask(p) ==
  /\ jobs # <<>> /\ Head(jobs) = p
  /\ pc[p] = "acquired" /\ mode[p] = "run"
  /\ pc' = [pc EXCEPT ![p] = "inTask"]
  /\ jobs' = Tail(jobs)
  /\ lockedResult' = "none"
  /\ UNCHANGED <<constructed, initArg, sem, mode, runVars, acqHist, nRelease,
                 nRawRelease>>

\* run after `await this.acquire()`: task() throws before returning a
\* promise; the finally block releases and run rejects: index.ts 75-79
RunTaskThrows(p) ==
  /\ jobs # <<>> /\ Head(jobs) = p
  /\ pc[p] = "acquired" /\ mode[p] = "run"
  /\ DoRelease(p, <<p>>)
  /\ taskOutcome' = [taskOutcome EXCEPT ![p] = "throw"]
  /\ result' = [result EXCEPT ![p] = "fail"]
  /\ relCount' = [relCount EXCEPT ![p] = relCount[p] + 1]
  /\ lockedResult' = "none"
  /\ UNCHANGED <<constructed, initArg, mode, ticket, nAcquire,
                 nRawRelease>>

\* The promise returned by task() settles
TaskSettle(p, o) ==
  /\ pc[p] = "inTask"
  /\ pc' = [pc EXCEPT ![p] = "taskDone"]
  /\ taskOutcome' = [taskOutcome EXCEPT ![p] = o]
  /\ jobs' = Append(jobs, p)
  /\ lockedResult' = "none"
  /\ UNCHANGED <<constructed, initArg, sem, mode, result, relCount, acqHist,
                 nRelease, nRawRelease>>

\* The continuation of `await task()` in run: the finally block releases,
\* then run's promise settles as the task's did: index.ts 76-79
RunFinallyNoReleaseOnFail(p) ==
  /\ jobs # <<>> /\ Head(jobs) = p
  /\ pc[p] = "taskDone"
  /\ IF taskOutcome[p] = "ok"
       THEN /\ DoRelease(p, <<p>>)
            /\ relCount' = [relCount EXCEPT ![p] = relCount[p] + 1]
       ELSE /\ pc' = [pc EXCEPT ![p] = "returned"]
            /\ jobs' = Append(Tail(jobs), p)
            /\ UNCHANGED <<sem, nGrant, relDue, nRelease, relCount>>
  /\ result' = [result EXCEPT ![p] = taskOutcome[p]]
  /\ lockedResult' = "none"
  /\ UNCHANGED <<constructed, initArg, mode, taskOutcome, ticket, nAcquire,
                 nRawRelease>>
RunFinally(p) ==
  /\ jobs # <<>> /\ Head(jobs) = p
  /\ pc[p] = "taskDone"
  /\ DoRelease(p, <<p>>)
  /\ relCount' = [relCount EXCEPT ![p] = relCount[p] + 1]
  /\ result' = [result EXCEPT ![p] = taskOutcome[p]]
  /\ lockedResult' = "none"
  /\ UNCHANGED <<constructed, initArg, mode, taskOutcome, ticket, nAcquire,
                 nRawRelease>>

\* The continuation of the caller's `await sem.run(task)`: the caller has the
\* result of run and the call is over.
RunReturn(p) ==
  /\ jobs # <<>> /\ Head(jobs) = p
  /\ pc[p] = "returned"
  /\ pc' = [pc EXCEPT ![p] = "idle"]
  /\ mode' = [mode EXCEPT ![p] = "none"]
  /\ ticket' = [ticket EXCEPT ![p] = 0]
  /\ taskOutcome' = [taskOutcome EXCEPT ![p] = "none"]
  /\ result' = [result EXCEPT ![p] = "none"]
  /\ relCount' = [relCount EXCEPT ![p] = 0]
  /\ jobs' = Tail(jobs)
  /\ lockedResult' = "none"
  /\ UNCHANGED <<constructed, initArg, sem, nAcquire, nGrant, relDue, nRelease,
                 nRawRelease>>

\* ------------------------------------------------------- specifications
Next ==
  \/ \E n \in InitArgs : Construct(n)
  \/ LockedCall
  \/ ReleaseCall
  \/ \E p \in Procs : AcquireCall(p)
  \/ \E p \in Procs : RunCall(p)
  \/ \E p \in Procs : AcquireResume(p)
  \/ \E p \in Procs : AcquireReturn(p)
  \/ \E p \in Procs : RunStartTask(p)
  \/ \E p \in Procs : RunTaskThrows(p)
  \/ \E p \in Procs : \E o \in {"ok", "fail"} : TaskSettle(p, o)
  \/ \E p \in Procs : RunFinally(p)
  \/ \E p \in Procs : RunReturn(p)

Spec == Init /\ [][Next]_vars

\* The semaphore used only through run(task)
NextRun ==
  \/ \E n \in InitArgs : Construct(n)
  \/ \E p \in Procs : RunCall(p)
  \/ \E p \in Procs : AcquireResume(p)
  \/ \E p \in Procs : RunStartTask(p)
  \/ \E p \in Procs : RunTaskThrows(p)
  \/ \E p \in Procs : \E o \in {"ok", "fail"} : TaskSettle(p, o)
  \/ \E p \in Procs : RunFinally(p)
  \/ \E p \in Procs : RunReturn(p)

SpecRun == Init /\ [][NextRun]_vars

\* The job at the head of the microtask queue runs.
RunJob ==
  \E p \in Procs :
    \/ AcquireResume(p)
    \/ RunStartTask(p)
    \/ RunTaskThrows(p)
    \/ RunFinally(p)
    \/ RunReturn(p)

\* The event loop runs every queued job, and every started task settles.
Fairness ==
  /\ WF_vars(RunJob)
  /\ \A p \in Procs : WF_vars(\E o \in {"ok", "fail"} : TaskSettle(p, o))

SpecRunFair == Init /\ [][NextRun]_vars /\ Fairness

\* ---------------------------------------------------------------- claims

\* Tasks whose task() has been started by run and has not yet settled
InFlight == {p \in Procs : mode[p] = "run" /\ pc[p] = "inTask"}
\* Tasks suspended in acquire(), their resolve callback in _waiters
Waiting == {p \in Procs : pc[p] = "waiting"}
\* Tasks whose acquire() promise has not resolved yet
InAcquire == {p \in Procs : pc[p] \in {"waiting", "woken"}}
\* locked() spelled out on the fields
IsLocked == _value = 0 \/ Len(_waiters) > 0

\* C1: used only through run, the number of tasks started by run and not yet
\* finished never exceeds the initial count N.
C1_MutualExclusionBound ==
  constructed = "ok" => Cardinality(InFlight) <= initArg
C1_Witness ==
  /\ initArg = 2
  /\ Cardinality(InFlight) = 2
  /\ Len(_waiters) = 1

\* C2: permits are granted in the order the acquire calls were issued: the
\* queue holds the suspended callers in issue order, and while a caller is
\* still suspended in the queue no caller of a later acquire has been granted
\* a permit (neither by a release nor by the fast path); the woken callers
\* resume in the order they were enqueued.
C2_FifoGrantOrder ==
  /\ \A i, j \in 1..Len(_waiters) :
       i < j => ticket[_waiters[i]] < ticket[_waiters[j]]
  /\ \A a, b \in Procs :
       (pc[a] = "waiting" /\ ticket[b] > ticket[a]) => pc[b] = "waiting"
  /\ \A i, j \in 1..Len(jobs) :
       (i < j /\ pc[jobs[i]] = "woken" /\ pc[jobs[j]] = "woken")
         => ticket[jobs[i]] < ticket[jobs[j]]
C2_Witness ==
  \E a, b \in Procs :
    /\ pc[a] = "woken" /\ pc[b] = "waiting"
    /\ ticket[a] < ticket[b]

\* C3: a run call makes no release before its task has settled and exactly
\* one by the time run's promise settles, which settles as the task did; a
\* single run call on an otherwise unused semaphore leaves the counter and
\* locked() as they were before the call, so that with capacity >= 1 the
\* next acquire takes the fast path.
C3_ScopedRelease ==
  /\ \A p \in Procs :
       mode[p] = "run" =>
         /\ pc[p] \in {"waiting", "woken", "acquired", "inTask", "taskDone"}
              => relCount[p] = 0 /\ result[p] = "none"
         /\ pc[p] = "returned"
              => /\ relCount[p] = 1
                 /\ result[p] = (IF taskOutcome[p] = "ok" THEN "ok" ELSE "fail")
  /\ \A p \in Procs :
       (nAcquire = 1 /\ nRawRelease = 0 /\ pc[p] = "returned")
         => /\ _value = initArg
            /\ _waiters = <<>>
            /\ (initArg >= 1 => ~IsLocked)
C3_Witness ==
  \E p \in Procs :
    /\ initArg = 1 /\ nAcquire = 1 /\ nRawRelease = 0
    /\ pc[p] = "returned" /\ taskOutcome[p] = "fail" /\ result[p] = "fail"

\* C4: the counter of a constructed semaphore is never negative.
C4_NonNegativeCounter ==
  constructed = "ok" => _value >= 0
C4_Witness ==
  /\ _value = 0
  /\ Len(_waiters) > 0
  /\ nRawRelease > 0

\* C5: the counter is the initial count plus the releases minus the grants;
\* when every grant has been released and there was no over-release it is
\* the initial count again.
C5_PermitConservation ==
  constructed = "ok" =>
    /\ _value = initArg + nRelease - nGrant
    /\ (nGrant = nRelease => _value = initArg)
C5_Witness ==
  /\ nGrant = 2 /\ nRelease = 2
  /\ _value = initArg
  /\ \A p \in Procs : pc[p] = "idle"

\* C6: with no release so far, the first n acquire calls of a semaphore of
\* initial count n were granted without suspending and every later one is
\* suspended in the queue.
C6_InitialCapacity ==
  (constructed = "ok" /\ nRelease = 0) =>
    LET k == IF nAcquire < initArg THEN nAcquire ELSE initArg IN
      /\ nGrant = k
      /\ _value = initArg - k
      /\ Len(_waiters) = nAcquire - k
      /\ \A p \in Procs :
           ticket[p] > 0 => (pc[p] = "waiting" <=> ticket[p] > initArg)
C6_Witness ==
  /\ initArg = 2 /\ nRelease = 0 /\ nAcquire = 3
  /\ Len(_waiters) = 1 /\ _value = 0

\* C7: once a caller has been enqueued, no caller of a later acquire has its
\* acquire completed (its promise resolved) before the earlier caller's
\* acquire has completed.
C7_NoOvertaking ==
  \A a, b \in Procs :
    (a \in InAcquire /\ ticket[b] > ticket[a]) => b \in InAcquire

\* C8: a release resumes at most one waiter; with an empty queue it raises
\* the counter by exactly one and resumes nobody.
C8_NoSpuriousWake ==
  [][nRelease' = nRelease + 1 =>
       /\ Cardinality({p \in Procs : pc[p] = "waiting" /\ pc'[p] # "waiting"}) <= 1
       /\ nGrant' <= nGrant + 1
       /\ _waiters = <<>> =>
            /\ _value' = _value + 1
            /\ nGrant' = nGrant
            /\ \A p \in Procs : pc'[p] = "woken" => pc[p] = "woken"]_vars
C8_Witness ==
  /\ nRelease = 1
  /\ Cardinality({p \in Procs : pc[p] = "woken"}) = 1
  /\ Len(_waiters) = 1

\* C9: locked() answers true exactly when the counter is zero or the queue
\* is non-empty and changes neither; an acquire call is enqueued exactly in
\* the states where locked() is true, and takes the fast path in the others.
C9_Locked ==
  [][/\ lockedResult' # "none" =>
          /\ lockedResult' = (IF IsLocked THEN "true" ELSE "false")
          /\ UNCHANGED <<_value, _waiters>>
     /\ nAcquire' = nAcquire + 1 =>
          IF IsLocked
            THEN /\ Len(_waiters') = Len(_waiters) + 1
                 /\ _value' = _value
                 /\ nGrant' = nGrant
            ELSE /\ _waiters' = _waiters
                 /\ _value' = _value - 1
                 /\ nGrant' = nGrant + 1]_vars
C9_Witness ==
  /\ lockedResult = "true"
  /\ _value = 0
  /\ _waiters = <<>>

\* C10: the constructor throws exactly for a negative argument and then
\* leaves no semaphore; otherwise the semaphore starts with the counter at
\* the argument and an empty queue.
C10_Construction ==
  /\ constructed = "threw" <=> (constructed # "none" /\ initArg < 0)
  /\ constructed = "threw" =>
       /\ nAcquire = 0 /\ nRelease = 0 /\ lockedResult = "none"
       /\ \A p \in Procs : pc[p] = "idle"
  /\ constructed = "ok" => initArg >= 0 /\ _value >= 0
  /\ (constructed = "ok" /\ nAcquire = 0 /\ nRelease = 0) =>
       _value = initArg /\ _waiters = <<>>
C10_Witness ==
  /\ constructed = "threw"
  /\ initArg < 0

\* C11: release can be called in every state of a constructed semaphore and
\* is one synchronous step; with no acquire issued yet, k releases leave the
\* counter at n + k, above the initial count, and as long as fewer than
\* n + k acquires were issued and none is suspended the next acquire takes
\* the fast path.
C11_UncheckedOverRelease ==
  [][/\ (constructed = "ok" /\ nRawRelease < MaxRawReleases) => ENABLED ReleaseCall
     /\ (nRelease' = nRelease + 1 /\ nAcquire' = 0) =>
          /\ _value' = initArg + nRelease'
          /\ _waiters' = <<>>
     /\ (nAcquire' = nAcquire + 1 /\ nGrant = nAcquire
           /\ nAcquire < initArg + nRelease) =>
          /\ nGrant' = nGrant + 1
          /\ _value' = _value - 1
          /\ _waiters' = <<>>]_vars
C11_Witness ==
  /\ initArg = 1 /\ nRelease = 2 /\ nRawRelease = 2
  /\ nAcquire = 3 /\ nGrant = 3
  /\ _value = 0 /\ _waiters = <<>>

\* The state of scenario 1 after its release: Semaphore(1), A took the fast
\* path, B was enqueued, and the one release so far resolved B
Scenario1AfterRelease ==
  /\ initArg = 1 /\ nAcquire = 2 /\ nRelease = 1
  /\ _waiters = <<>>
  /\ \E b \in Procs : ticket[b] = 2 /\ pc[b] = "woken"

\* C12 as stated: in scenario 1 locked() is true after both acquires and
\* false after the release that resumes B.
C12_Scenario1AsStated ==
  /\ (initArg = 1 /\ nAcquire = 2 /\ nRelease = 0 /\ lockedResult # "none")
       => lockedResult = "true"
  /\ (Scenario1AfterRelease /\ lockedResult # "none") => lockedResult = "false"

\* C12 amended: in scenario 1 locked() is true after both acquires and still
\* true after the release that resumes B (the permit went to B, the counter
\* stays 0); it is false after one more release with no waiter queued.
C12_Scenario1 ==
  /\ (initArg = 1 /\ nAcquire = 2 /\ nRelease = 0 /\ lockedResult # "none")
       => lockedResult = "true"
  /\ (Scenario1AfterRelease /\ lockedResult # "none") => lockedResult = "true"
  /\ (initArg = 1 /\ nAcquire = 2 /\ nRelease = 2 /\ lockedResult # "none")
       => lockedResult = "false" /\ _waiters = <<>>
C12_Witness ==
  /\ Scenario1AfterRelease
  /\ lockedResult = "true"

\* C13: used only through run with N >= 1, when the event loop runs every
\* queued job and every started task settles, every run call gets to call
\* its task and every run call returns to its caller.
C13_Progress ==
  \A p \in Procs :
    /\ (initArg >= 1 /\ mode[p] = "run" /\ pc[p] \in {"waiting", "woken", "acquired"})
         ~> (pc[p] \in {"inTask", "returned"})
    /\ (initArg >= 1 /\ mode[p] = "run") ~> (pc[p] = "idle")
C13_Witness ==
  /\ initArg = 1
  /\ Len(_waiters) = 2
  /\ \A p \in Range(_waiters) : mode[p] = "run"

\* The place of task p in the queue ws (1 is the head)
PosIn(ws, p) == CHOOSE i \in 1..Len(ws) : ws[i] = p

\* C14: whenever a caller is suspended in the queue the counter is zero.
C14_NoWaiterWhileFree ==
  constructed = "ok" => (Len(_waiters) > 0 => _value = 0)
C14_Witness ==
  /\ initArg = 0 /\ nRawRelease = 2 /\ nGrant = 2
  /\ Len(_waiters) = 1
  /\ _value = 0

\* C15: a release made with a non-empty queue removes the head and only the
\* head, invokes its resolve callback, keeps the other waiters in order and
\* leaves the counter as it was.
C15_DirectHandOff ==
  [][(nRelease' = nRelease + 1 /\ _waiters # <<>>) =>
       /\ _waiters' = Tail(_waiters)
       /\ pc[Head(_waiters)] = "waiting" /\ pc'[Head(_waiters)] = "woken"
       /\ Head(_waiters) \in Range(jobs') /\ Head(_waiters) \notin Range(jobs)
       /\ \A q \in Range(Tail(_waiters)) : pc'[q] = "waiting"
       /\ _value' = _value
       /\ nGrant' = nGrant + 1]_vars
C15_Witness ==
  /\ initArg = 1 /\ nAcquire = 3 /\ nRelease = 1
  /\ Len(_waiters) = 1
  /\ \E b \in Procs : ticket[b] = 2 /\ pc[b] = "woken"
  /\ _value = 0

\* C16: a suspended acquire stays suspended, at the same place of the queue,
\* across every step that is not a release; a release moves it one place up
\* or, at the head, invokes its resolve callback, so that a waiter enqueued
\* behind i others is granted by exactly the (i+1)th release after it was
\* enqueued; the resumed acquire changes neither the counter nor the queue.
C16_ResumedOnlyByRelease ==
  [][\A p \in Procs :
       /\ pc[p] = "waiting" =>
            /\ p \in Range(_waiters)
            /\ relDue[p] = nRelease + PosIn(_waiters, p)
            /\ IF nRelease' = nRelease + 1
                 THEN IF PosIn(_waiters, p) = 1
                        THEN pc'[p] = "woken" /\ nRelease' = relDue[p]
                        ELSE /\ pc'[p] = "waiting"
                             /\ PosIn(_waiters', p) = PosIn(_waiters, p) - 1
                 ELSE /\ pc'[p] = "waiting"
                      /\ nRelease' = nRelease
                      /\ PosIn(_waiters', p) = PosIn(_waiters, p)
       /\ (pc[p] = "woken" /\ pc'[p] # "woken") =>
            /\ pc'[p] = "acquired"
            /\ UNCHANGED <<_value, _waiters, nGrant, nRelease>>]_vars
C16_Witness ==
  /\ initArg = 0 /\ nRelease = 2
  /\ \E p \in Procs : ticket[p] = 2 /\ pc[p] = "acquired"
  /\ \E q \in Procs : ticket[q] = 3 /\ pc[q] = "waiting"

\* C17: a resolve callback is in the queue once and exactly while its task
\* is suspended, it is invoked only from the head of the queue by a release
\* and leaves the queue in that step, no task has two continuations pending,
\* and no step resumes more waiters than it makes release calls (so waiters
\* resumed so far never exceed releases so far).
C17_NoDoubleWake ==
  [][/\ \A i, j \in 1..Len(_waiters') : i # j => _waiters'[i] # _waiters'[j]
     /\ \A p \in Procs : p \in Range(_waiters') <=> pc'[p] = "waiting"
     /\ \A i, j \in 1..Len(jobs') : i # j => jobs'[i] # jobs'[j]
     /\ \A p \in Procs :
          (pc'[p] = "woken" /\ pc[p] # "woken") =>
            /\ pc[p] = "waiting"
            /\ p = Head(_waiters)
            /\ p \notin Range(_waiters')
     /\ Cardinality({p \in Procs : pc[p] # "woken" /\ pc'[p] = "woken"})
          <= nRelease' - nRelease
     /\ nAcquire' = nAcquire + 1 => Len(_waiters') <= Len(_waiters) + 1]_vars
C17_Witness ==
  /\ initArg = 0 /\ nRelease = 2
  /\ Cardinality({p \in Procs : pc[p] \in {"woken", "acquired"}}) = 2
  /\ Len(_waiters) = 1

\* run calls that hold a permit: granted and their release not yet made
Holders ==
  {p \in Procs : mode[p] = "run"
                 /\ pc[p] \in {"woken", "acquired", "inTask", "taskDone"}}

\* C18: in every reachable state locked() is true exactly when the counter is
\* zero: there is no state with a positive counter and a non-empty queue,
\* also between a release and the continuation of the waiter it resolved.
C18_WaiterTestRedundant ==
  constructed = "ok" =>
    /\ locked(_value, _waiters) <=> _value = 0
    /\ ~(_value > 0 /\ Len(_waiters) > 0)
    /\ lockedResult # "none" => (lockedResult = "true" <=> _value = 0)
C18_Witness ==
  /\ \E p \in Procs : pc[p] = "woken"
  /\ Len(_waiters) = 1
  /\ lockedResult = "true"
  /\ _value = 0

\* C19: used only through run, the counter never exceeds the initial count
\* N, and the counter plus the run calls holding a permit is N.
C19_CapacityNeverGrows ==
  constructed = "ok" =>
    /\ _value <= initArg
    /\ _value + Cardinality(Holders) = initArg
C19_Witness ==
  /\ initArg = 2 /\ _value = 1
  /\ Cardinality(Holders) = 1
  /\ nRelease = 2
  /\ \E p \in Procs : pc[p] = "returned" /\ taskOutcome[p] = "fail"

TypeOK ==
  /\ constructed \in {"none", "ok", "threw"}
  /\ initArg \in InitArgs
  /\ _value \in Int
  /\ _waiters \in Seq(Procs)
  /\ pc \in [Procs -> {"idle", "waiting", "woken", "acquired", "inTask",
                       "taskDone", "returned"}]
  /\ mode \in [Procs -> {"none", "raw", "run"}]
  /\ jobs \in Seq(Procs)
  /\ lockedResult \in {"none", "true", "false"}
====
